---- MODULE Spec2Model ----
(***************************************************************************)
(* SALMA query-to-subalignment assignment (src/src/loader.py).             *)
(*                                                                         *)
(* The three functions of loader.py are modelled as operators computed the *)
(* way the Python code computes them (loops as recursion, dictionaries as  *)
(* insertion-ordered sequences of <<key, value>> pairs, raised exceptions  *)
(* as a result field), and as one action each.  The filesystem the code    *)
(* reads through `find`, `head`, `wc` and `open` is part of the state.     *)
(***************************************************************************)
EXTENDS Integers, Sequences, FiniteSets, TLC

VARIABLES
    pc,               \* "start" | "cataloged" | "ranked" | "assigned" | "error"
    raised,           \* exception that ended the last call, "none" if it returned
    rootExists,       \* whether the directory `indir` exists
    descriptors,      \* hmmbuild.model.* files, in the order `find` lists them
    result_files,     \* hmmsearch.results.* files, in the order `find` lists them
    paths_arg,        \* argument hmmbuild_paths of obtainHMMs
    lower, upper,     \* arguments lower, upper of obtainHMMs
    hmm_indexes,      \* first value returned by obtainHMMs
    index_to_hmms,    \* second value returned by obtainHMMs
    collected,        \* `scores` of getHMMSearchResults before it is sorted
    scores,           \* value returned by getHMMSearchResults
    query_assignment, \* value returned by assignQueryToSubset
    run,              \* 1 in the first run of the pipeline, 2 in the second
    first_assignment  \* query_assignment of the first run

vars == <<pc, raised, rootExists, descriptors, result_files, paths_arg, lower,
          upper, hmm_indexes, index_to_hmms, collected, scores,
          query_assignment, run, first_assignment>>

----------------------------------------------------------------------------
(* Bounds of the model.                                                    *)

MaxModels == 2
MaxNSeq == 3
MaxLines == 6
MaxTokens == 4
MaxFiles == 3
MaxMatches == 2
MaxRunFiles == 2

(* `head -n 15`: the part of a descriptor file the code parses.            *)
HeadLines == 15

Queries == {"q1", "q2"}
BitScores == {1, 2}
Tokens == {"A", "1", "2"}

----------------------------------------------------------------------------
(* Python values.                                                          *)

Range(s) == {s[i] : i \in DOMAIN s}

Reverse(s) == [i \in 1..Len(s) |-> s[Len(s) + 1 - i]]

(* A dict is the sequence of its <<key, value>> items in insertion order.  *)
DictKeys(d) == {d[i][1] : i \in DOMAIN d}

DictHas(d, k) == \E i \in DOMAIN d : d[i][1] = k

DictGet(d, k) == d[CHOOSE i \in DOMAIN d : d[i][1] = k][2]

(* d[k] = v: an existing key keeps its position, a new key goes last.      *)
DictSet(d, k, v) ==
    IF DictHas(d, k)
    THEN [i \in DOMAIN d |-> IF d[i][1] = k THEN <<k, v>> ELSE d[i]]
    ELSE Append(d, <<k, v>>)

(* defaultdict(list): d[k].append(x).                                      *)
DictAppend(d, k, x) ==
    DictSet(d, k, Append(IF DictHas(d, k) THEN DictGet(d, k) ELSE <<>>, x))

(* int(x) of a token of a directory name.                                  *)
IsInt(tok) == tok \in {"0", "1", "2", "3", "4", "5", "6", "7", "8", "9"}

IntOf(tok) ==
    CASE tok = "0" -> 0 [] tok = "1" -> 1 [] tok = "2" -> 2 [] tok = "3" -> 3
      [] tok = "4" -> 4 [] tok = "5" -> 5 [] tok = "6" -> 6 [] tok = "7" -> 7
      [] tok = "8" -> 8 [] tok = "9" -> 9

StrOf(n) == <<"0", "1", "2", "3", "4", "5", "6", "7", "8", "9">>[n + 1]

(* sorted(seq, key=lambda x: x[k-1], reverse=True).  CPython reverses the  *)
(* list, sorts it stably in ascending key order and reverses the result.   *)
RECURSIVE InsertAsc(_, _, _)
InsertAsc(sorted, x, k) ==
    IF sorted = <<>> THEN <<x>>
    ELSE IF sorted[Len(sorted)][k] <= x[k] THEN Append(sorted, x)
    ELSE Append(InsertAsc(SubSeq(sorted, 1, Len(sorted) - 1), x, k),
                sorted[Len(sorted)])

RECURSIVE StableSortAsc(_, _)
StableSortAsc(seq, k) ==
    IF seq = <<>> THEN <<>>
    ELSE InsertAsc(StableSortAsc(SubSeq(seq, 1, Len(seq) - 1), k),
                   seq[Len(seq)], k)

(* The list left in the order of collection.                               *)
Unsorted(seq, k) == seq

(* The sort without reverse=True.                                          *)
SortedAscending(seq, k) == StableSortAsc(seq, k)

(* An ascending sort reversed afterwards: equal keys swap their order.     *)
UnstableSortedReverse(seq, k) == Reverse(StableSortAsc(seq, k))

SortedReverse(seq, k) == Reverse(StableSortAsc(Reverse(seq), k))

----------------------------------------------------------------------------
(* obtainHMMs.                                                             *)

(* The descriptor file at a path.                                          *)
DescAt(path) == descriptors[CHOOSE i \in DOMAIN descriptors :
                                descriptors[i].dir = path]

(* `find indir -name hmmbuild.model.* -type f`, read through os.popen: a   *)
(* missing directory makes find fail on stderr and print nothing.          *)
FindDescriptors ==
    IF rootExists THEN [i \in DOMAIN descriptors |-> descriptors[i].dir]
    ELSE <<>>

(* The descriptor is used without the check that it holds NSEQ.            *)
NSEQUnchecked(d) == TRUE

(* 'NSEQ' in _dict: the NSEQ line is among the first HeadLines lines.      *)
HasNSEQ(d) == d.nseq_line >= 1 /\ d.nseq_line <= HeadLines

(* The size filter with the upper bound exclusive.                         *)
InRangeExclusive(num_seq, lo, up, n_paths) ==
    (num_seq < up /\ num_seq >= lo) \/ n_paths = 1

(* The inclusion rule of obtainHMMs.                                       *)
InRange(num_seq, lo, up, n_paths) ==
    (num_seq <= up /\ num_seq >= lo) \/ n_paths = 1

SubalignmentSize(d) == d.sub_lines \div 2

(* index.split('_')[1:] unpacked into exactly two integers.                *)
IndexTokens(index) == Tail(index)

IndexParses(index) ==
    /\ Len(IndexTokens(index)) = 2
    /\ \A i \in 1..2 : IsInt(IndexTokens(index)[i])

AlignmentInd(index) == IntOf(IndexTokens(index)[1])

HmmInd(index) == IntOf(IndexTokens(index)[2])

RECURSIVE CatalogLoop(_, _, _, _, _, _)
CatalogLoop(paths, i, lo, up, hi, ith) ==
    IF i > Len(paths)
    THEN [raised |-> "none", hmm_indexes |-> hi, index_to_hmms |-> ith]
    ELSE LET d == DescAt(paths[i])
             fail(e) == [raised |-> e, hmm_indexes |-> <<>>,
                         index_to_hmms |-> <<>>]
         IN  IF ~HasNSEQ(d) THEN fail("AssertionError")
             ELSE IF ~InRange(d.nseq, lo, up, Len(paths))
                  THEN CatalogLoop(paths, i + 1, lo, up, hi, ith)
             ELSE IF ~d.has_sub THEN fail("AssertionError")
             ELSE IF ~IndexParses(d.base) THEN fail("ValueError")
             ELSE CatalogLoop(paths, i + 1, lo, up,
                     Append(hi, <<AlignmentInd(d.base), SubalignmentSize(d),
                                  HmmInd(d.base), d.nseq>>),
                     DictSet(ith, d.base,
                             <<d.dir, AlignmentInd(d.base), HmmInd(d.base),
                               d.nseq>>))

obtainHMMs(hmmbuild_paths, lo, up) ==
    LET paths == IF Len(hmmbuild_paths) = 0 THEN FindDescriptors
                 ELSE hmmbuild_paths
        r == CatalogLoop(paths, 1, lo, up, <<>>, <<>>)
    IN  IF r.raised # "none" THEN r
        ELSE [r EXCEPT !.hmm_indexes = SortedReverse(r.hmm_indexes, 2)]

----------------------------------------------------------------------------
(* getHMMSearchResults.                                                    *)

(* `find hmmdir -name hmmsearch.results.* -type f`.                        *)
FindResults(hmmdir) == SelectSeq(result_files, LAMBDA f : f.dir = hmmdir)

(* for taxon, score in this_scores.items(): scores[taxon].append(...)      *)
RECURSIVE AppendScores(_, _, _, _, _)
AppendScores(sc, this_scores, j, alignment_ind, hmm_ind) ==
    IF j > Len(this_scores) THEN sc
    ELSE AppendScores(
             DictAppend(sc, this_scores[j][1],
                        <<alignment_ind, hmm_ind, this_scores[j][2][2]>>),
             this_scores, j + 1, alignment_ind, hmm_ind)

RECURSIVE ReadResults(_, _, _, _, _)
ReadResults(sc, hmmsearch_paths, p, alignment_ind, hmm_ind) ==
    IF p > Len(hmmsearch_paths) THEN sc
    ELSE ReadResults(
             AppendScores(sc, hmmsearch_paths[p].content, 1, alignment_ind,
                          hmm_ind),
             hmmsearch_paths, p + 1, alignment_ind, hmm_ind)

RECURSIVE CollectScores(_, _, _)
CollectScores(sc, ith, i) ==
    IF i > Len(ith) THEN sc
    ELSE LET val == ith[i][2]
         IN  CollectScores(ReadResults(sc, FindResults(val[1]), 1, val[2],
                                       val[3]),
                           ith, i + 1)

RankScores(sc) == [i \in DOMAIN sc |-> <<sc[i][1], SortedReverse(sc[i][2], 3)>>]

getHMMSearchResults(ith) == RankScores(CollectScores(<<>>, ith, 1))

----------------------------------------------------------------------------
(* assignQueryToSubset.                                                    *)

(* score[0][1], the hmm index, in place of score[0][0].                    *)
TopHmmInd(score) == score[1][2]

(* score[0][0]: the alignment subproblem index with the highest bit-score. *)
TopAlignmentInd(score) == score[1][1]

RECURSIVE AssignLoop(_, _, _)
AssignLoop(sc, i, qa) ==
    IF i > Len(sc) THEN [raised |-> "none", query_assignment |-> qa]
    ELSE IF Len(sc[i][2]) = 0
         THEN [raised |-> "IndexError", query_assignment |-> <<>>]
    ELSE AssignLoop(sc, i + 1,
                    DictAppend(qa, TopAlignmentInd(sc[i][2]), sc[i][1]))

assignQueryToSubset(sc) == AssignLoop(sc, 1, <<>>)

----------------------------------------------------------------------------
(* The calls, as actions.                                                  *)

DoObtainHMMs ==
    /\ pc = "start"
    /\ LET r == obtainHMMs(paths_arg, lower, upper)
       IN  /\ raised' = r.raised
           /\ pc' = IF r.raised = "none" THEN "cataloged" ELSE "error"
           /\ hmm_indexes' = r.hmm_indexes
           /\ index_to_hmms' = r.index_to_hmms
    /\ UNCHANGED <<rootExists, descriptors, result_files, paths_arg, lower,
                   upper, collected, scores, query_assignment, run,
                   first_assignment>>

DoGetHMMSearchResults ==
    /\ pc = "cataloged"
    /\ collected' = CollectScores(<<>>, index_to_hmms, 1)
    /\ scores' = getHMMSearchResults(index_to_hmms)
    /\ pc' = "ranked"
    /\ UNCHANGED <<raised, rootExists, descriptors, result_files, paths_arg,
                   lower, upper, hmm_indexes, index_to_hmms, query_assignment,
                   run, first_assignment>>

DoAssignQueryToSubset ==
    /\ pc = "ranked"
    /\ LET r == assignQueryToSubset(scores)
       IN  /\ raised' = r.raised
           /\ pc' = IF r.raised = "none" THEN "assigned" ELSE "error"
           /\ query_assignment' = r.query_assignment
    /\ UNCHANGED <<rootExists, descriptors, result_files, paths_arg, lower,
                   upper, hmm_indexes, index_to_hmms, collected, scores, run,
                   first_assignment>>

(* A second run of the pipeline on the same artifacts: `find` may list the *)
(* same files in another order.                                            *)
Orderings(s) ==
    {[i \in DOMAIN s |-> s[p[i]]] : p \in Permutations(DOMAIN s)}

Rerun ==
    /\ pc = "assigned"
    /\ run = 1
    /\ run' = 2
    /\ first_assignment' = query_assignment
    /\ descriptors' \in Orderings(descriptors)
    /\ result_files' \in Orderings(result_files)
    /\ pc' = "start"
    /\ raised' = "none"
    /\ hmm_indexes' = <<>>
    /\ index_to_hmms' = <<>>
    /\ collected' = <<>>
    /\ scores' = <<>>
    /\ query_assignment' = <<>>
    /\ UNCHANGED <<rootExists, paths_arg, lower, upper>>

----------------------------------------------------------------------------
(* Inputs.                                                                 *)

SeqsUpTo(S, n) == UNION {[1..k -> S] : k \in 0..n}

(* The directory <prefix>_<i>_0 of the model with path i.                  *)
BaseOf(i) == <<"A", StrOf(i), "0">>

(* The header of a descriptor: no NSEQ line, or one at line 10 (inside the *)
(* part read) or at line 16 (outside it).                                  *)
Headers ==
    {[nseq_line |-> 0, nseq |-> 0]}
        \cup {[nseq_line |-> l, nseq |-> n] : l \in {10, 16}, n \in 1..MaxNSeq}

Descriptor(i, base, hdr, has_sub, sub_lines) ==
    [dir |-> i, base |-> base, nseq_line |-> hdr.nseq_line, nseq |-> hdr.nseq,
     has_sub |-> has_sub, sub_lines |-> sub_lines]

(* In the pipeline the models alternate between partitions 1 and 2:       *)
(* A_1_0, A_2_0, A_1_1, A_2_1, ...                                         *)
RunBaseOf(i) == <<"A", StrOf(2 - (i % 2)), StrOf((i - 1) \div 2)>>

GoodHeader(n) == [nseq_line |-> 10, nseq |-> n]

(* The content of a result file: a dict from query to (e-value, bit-score).*)
Entry(q, b) == <<q, <<0, b>>>>

FileContents ==
    {<<>>} \cup {<<Entry(q, b)>> : q \in Queries, b \in BitScores}
           \cup {<<Entry("q1", b1), Entry("q2", b2)>> :
                     b1 \in BitScores, b2 \in BitScores}

ResultFile(dir, content) == [dir |-> dir, content |-> content]

CatalogEntry(i) == <<BaseOf(i), <<i, i, 0, 1>>>>

Matches == {<<a, 0, b>> : a \in {1, 2}, b \in BitScores}

IsRanked(l) == \A i \in 1..(Len(l) - 1) : l[i][3] >= l[i + 1][3]

RankedLists == {l \in SeqsUpTo(Matches, MaxMatches) : IsRanked(l)}

QueryOrders == {<<>>, <<"q1">>, <<"q2">>, <<"q1", "q2">>, <<"q2", "q1">>}

NoCatalog == hmm_indexes = <<>> /\ index_to_hmms = <<>>

NoScores == collected = <<>> /\ scores = <<>>

NoAssignment ==
    /\ raised = "none"
    /\ query_assignment = <<>>
    /\ run = 1
    /\ first_assignment = <<>>

NoOutputs == NoCatalog /\ NoScores /\ NoAssignment

(* obtainHMMs on descriptors whose headers and sibling files vary.         *)
InitCatalog ==
    /\ pc = "start"
    /\ NoOutputs
    /\ result_files = <<>>
    /\ lower \in 1..MaxNSeq
    /\ upper \in 1..MaxNSeq
    /\ \E k \in 0..MaxModels :
         \E hdr \in [1..k -> Headers], sub \in [1..k -> BOOLEAN] :
            descriptors =
                [i \in 1..k |-> Descriptor(i, BaseOf(i), hdr[i], sub[i],
                                           IF sub[i] THEN 2 * i ELSE 0)]
    /\ \/ rootExists = TRUE /\ paths_arg = <<>>
       \/ rootExists = TRUE /\ paths_arg = FindDescriptors
       \/ rootExists = FALSE /\ paths_arg = <<>> /\ descriptors = <<>>

(* obtainHMMs on descriptors whose subset alignments vary in size.         *)
InitOrder ==
    /\ pc = "start"
    /\ NoOutputs
    /\ result_files = <<>>
    /\ lower = 1
    /\ upper = 1
    /\ rootExists = TRUE
    /\ paths_arg = <<>>
    /\ \E k \in 0..MaxModels :
         \E n \in [1..k -> 1..2], lines \in [1..k -> 0..MaxLines] :
            descriptors =
                [i \in 1..k |-> Descriptor(i, BaseOf(i), GoodHeader(n[i]),
                                           TRUE, lines[i])]

(* obtainHMMs on one descriptor whose directory name varies.               *)
InitDirName ==
    /\ pc = "start"
    /\ NoOutputs
    /\ result_files = <<>>
    /\ lower = 1
    /\ upper = 1
    /\ rootExists = TRUE
    /\ paths_arg = <<>>
    /\ \E base \in SeqsUpTo(Tokens, MaxTokens) \ {<<>>} :
         descriptors = <<Descriptor(1, base, GoodHeader(1), TRUE, 2)>>

(* getHMMSearchResults on a catalog of one or two models.                  *)
InitRank ==
    /\ pc = "cataloged"
    /\ hmm_indexes = <<>>
    /\ NoScores
    /\ NoAssignment
    /\ rootExists = TRUE
    /\ paths_arg = <<>>
    /\ lower = 1
    /\ upper = 1
    /\ descriptors = [i \in 1..2 |-> Descriptor(i, BaseOf(i), GoodHeader(1),
                                                TRUE, 2)]
    /\ \E order \in {<<1>>, <<1, 2>>, <<2, 1>>} :
         index_to_hmms = [i \in DOMAIN order |-> CatalogEntry(order[i])]
    /\ \E files \in SeqsUpTo({1, 2} \X FileContents, MaxFiles) :
         result_files = [p \in DOMAIN files |->
                            ResultFile(files[p][1], files[p][2])]

(* assignQueryToSubset on a ranked-scores mapping.                         *)
InitAssign ==
    /\ pc = "ranked"
    /\ NoCatalog
    /\ collected = <<>>
    /\ NoAssignment
    /\ rootExists = TRUE
    /\ paths_arg = <<>>
    /\ lower = 1
    /\ upper = 1
    /\ descriptors = <<>>
    /\ result_files = <<>>
    /\ \E order \in QueryOrders :
         \E lists \in [DOMAIN order -> RankedLists] :
            scores = [i \in DOMAIN order |-> <<order[i], lists[i]>>]

(* The whole pipeline, twice, on MaxModels models and their result files.  *)
Init ==
    /\ pc = "start"
    /\ NoOutputs
    /\ rootExists = TRUE
    /\ paths_arg = <<>>
    /\ lower = 1
    /\ upper = 1
    /\ descriptors = [i \in 1..MaxModels |->
                         Descriptor(i, RunBaseOf(i), GoodHeader(1), TRUE, 2)]
    /\ \E files \in SeqsUpTo((1..MaxModels) \X Queries \X BitScores,
                             MaxRunFiles) :
         result_files = [p \in DOMAIN files |->
                            ResultFile(files[p][1],
                                       <<Entry(files[p][2], files[p][3])>>)]

----------------------------------------------------------------------------
(* Specifications.                                                         *)

NextCatalog == DoObtainHMMs

NextRank == DoGetHMMSearchResults

NextAssign == DoAssignQueryToSubset

Next ==
    \/ DoObtainHMMs
    \/ DoGetHMMSearchResults
    \/ DoAssignQueryToSubset
    \/ Rerun

SpecCatalog == InitCatalog /\ [][NextCatalog]_vars

SpecOrder == InitOrder /\ [][NextCatalog]_vars

SpecDirName == InitDirName /\ [][NextCatalog]_vars

SpecRank == InitRank /\ [][NextRank]_vars

SpecAssign == InitAssign /\ [][NextAssign]_vars

Spec == Init /\ [][Next]_vars

----------------------------------------------------------------------------
(* Properties of assignQueryToSubset (SpecAssign).                         *)

(* The places <<bucket, position>> of query_assignment that hold query q.  *)
Places(qa, q) ==
    UNION {{<<b, j>> : j \in {j \in DOMAIN qa[b][2] : qa[b][2][j] = q}} :
              b \in DOMAIN qa}

HasEmptyList == \E i \in DOMAIN scores : Len(scores[i][2]) = 0

(* C1: when every query of the ranked-scores mapping has at least one      *)
(* match, every query key is in exactly one bucket of the assignment, the  *)
(* key of that bucket is the alignmentIndex of the match at index 0 of the *)
(* query's list, and no bucket holds a query that is not a key.            *)
C1_AssignedToTopMatch ==
    (pc # "ranked" /\ ~HasEmptyList) =>
        /\ pc = "assigned"
        /\ \A i \in DOMAIN scores :
              /\ Cardinality(Places(query_assignment, scores[i][1])) = 1
              /\ \A pl \in Places(query_assignment, scores[i][1]) :
                    query_assignment[pl[1]][1] = scores[i][2][1][1]
        /\ \A b \in DOMAIN query_assignment :
              /\ \A j \in DOMAIN query_assignment[b][2] :
                    query_assignment[b][2][j] \in DictKeys(scores)
              /\ \A c \in DOMAIN query_assignment :
                    query_assignment[b][1] = query_assignment[c][1] => b = c

(* Two queries, ranked against both partitions, whose top matches differ   *)
(* from their second matches and from each other, have been assigned.      *)
C1_Witness ==
    /\ pc = "assigned"
    /\ Len(scores) = 2
    /\ \A i \in DOMAIN scores :
          /\ Len(scores[i][2]) = 2
          /\ scores[i][2][1][1] # scores[i][2][2][1]
    /\ scores[1][2][1][1] # scores[2][2][1][1]

(* C5: a query whose ranked list is empty is skipped without an error: it  *)
(* is in no bucket, and every other query is assigned to the alignmentIndex*)
(* of its top match.                                                       *)
C5_EmptyListSkipped ==
    (pc # "ranked" /\ HasEmptyList) =>
        /\ pc = "assigned"
        /\ raised = "none"
        /\ \A i \in DOMAIN scores :
              IF Len(scores[i][2]) = 0
              THEN Places(query_assignment, scores[i][1]) = {}
              ELSE /\ Cardinality(Places(query_assignment, scores[i][1])) = 1
                   /\ \A pl \in Places(query_assignment, scores[i][1]) :
                         query_assignment[pl[1]][1] = scores[i][2][1][1]

----------------------------------------------------------------------------
(* Properties of obtainHMMs (SpecCatalog, SpecOrder, SpecDirName).         *)

(* The descriptor list the call processes.                                 *)
Processed ==
    IF paths_arg # <<>> THEN paths_arg
    ELSE IF rootExists THEN [i \in DOMAIN descriptors |-> descriptors[i].dir]
    ELSE <<>>

(* NSEQ within [lower, upper], or the only descriptor processed.           *)
PassesFilter(path) ==
    \/ lower <= DescAt(path).nseq /\ DescAt(path).nseq <= upper
    \/ Len(Processed) = 1

(* The descriptor at `path` has an entry in the ordered list and is the    *)
(* value under its directory name in the descriptor mapping.               *)
InCatalog(path) ==
    /\ \E e \in DOMAIN hmm_indexes :
          /\ hmm_indexes[e][1] = path
          /\ hmm_indexes[e][4] = DescAt(path).nseq
    /\ \E x \in DOMAIN index_to_hmms :
          /\ index_to_hmms[x][1] = DescAt(path).base
          /\ index_to_hmms[x][2][1] = path

(* C2: when obtainHMMs returns, a descriptor is in the catalog if and only *)
(* if lower <= NSEQ <= upper or it is the only descriptor processed; the   *)
(* catalog has no other entries.                                           *)
C2_SizeFilter ==
    pc = "cataloged" =>
        /\ \A i \in DOMAIN Processed :
              PassesFilter(Processed[i]) <=> InCatalog(Processed[i])
        /\ Len(hmm_indexes) =
              Cardinality({i \in DOMAIN Processed : PassesFilter(Processed[i])})
        /\ Len(index_to_hmms) = Len(hmm_indexes)

(* Two descriptors were processed: one with NSEQ = upper is in the catalog,*)
(* one with NSEQ outside [lower, upper] is not.                            *)
C2_Witness ==
    /\ pc = "cataloged"
    /\ Len(Processed) = 2
    /\ \E i, j \in DOMAIN Processed :
          /\ DescAt(Processed[i]).nseq = upper
          /\ lower < upper
          /\ InCatalog(Processed[i])
          /\ DescAt(Processed[j]).nseq > upper
          /\ ~InCatalog(Processed[j])

LacksNSEQ(path) == DescAt(path).nseq_line = 0

LacksSibling(path) ==
    /\ ~LacksNSEQ(path)
    /\ PassesFilter(path)
    /\ ~DescAt(path).has_sub

(* C6: if a processed descriptor lacks the NSEQ field, or an included      *)
(* descriptor has no sibling subset-alignment file, obtainHMMs ends in an  *)
(* error and returns neither the ordered list nor the descriptor mapping.  *)
C6_FatalDescriptorErrors ==
    (/\ pc # "start"
     /\ \E i \in DOMAIN Processed :
           LacksNSEQ(Processed[i]) \/ LacksSibling(Processed[i])) =>
        /\ pc = "error"
        /\ raised # "none"
        /\ hmm_indexes = <<>>
        /\ index_to_hmms = <<>>

(* The call failed on its second descriptor, which lacks NSEQ and would    *)
(* not pass the size filter, after the first one was processed into the    *)
(* catalog successfully.                                                   *)
C6_Witness ==
    /\ pc = "error"
    /\ Len(Processed) = 2
    /\ ~LacksNSEQ(Processed[1])
    /\ DescAt(Processed[1]).nseq_line <= HeadLines
    /\ PassesFilter(Processed[1])
    /\ DescAt(Processed[1]).has_sub
    /\ LacksNSEQ(Processed[2])
    /\ ~PassesFilter(Processed[2])

(* C7: with no pre-enumerated descriptor list and a root directory that    *)
(* does not exist, obtainHMMs ends in a fatal error and returns no catalog.*)
C7_MissingRootIsFatal ==
    (pc # "start" /\ paths_arg = <<>> /\ ~rootExists) =>
        /\ pc = "error"
        /\ raised # "none"

(* C9: an included descriptor whose directory name has at least three      *)
(* tokens, the last two of them integers, gets alignmentIndex from the     *)
(* second-to-last token and hmmIndex from the last one.                    *)
C9_LastTwoTokens ==
    LET base == descriptors[1].base
        n == Len(base)
    IN  (/\ pc # "start"
         /\ n >= 3
         /\ IsInt(base[n - 1])
         /\ IsInt(base[n])) =>
            /\ pc = "cataloged"
            /\ Len(hmm_indexes) = 1
            /\ hmm_indexes[1][1] = IntOf(base[n - 1])
            /\ hmm_indexes[1][3] = IntOf(base[n])
            /\ index_to_hmms[1][2][2] = IntOf(base[n - 1])
            /\ index_to_hmms[1][2][3] = IntOf(base[n])

(* The position in the processed list of the descriptor of a list entry.   *)
ProcessedAt(entry) == CHOOSE i \in DOMAIN Processed : Processed[i] = entry[1]

(* C10: the ordered list is sorted by subsetSequenceCount non-increasing,  *)
(* subsetSequenceCount is the sibling file's line count divided by two and *)
(* rounded down, and entries of equal subsetSequenceCount are in the order *)
(* in which their descriptors were processed.                              *)
C10_CatalogOrder ==
    pc = "cataloged" =>
        /\ \A e \in DOMAIN hmm_indexes :
              \E h \in 0..1 :
                 2 * hmm_indexes[e][2] + h = DescAt(hmm_indexes[e][1]).sub_lines
        /\ \A e, f \in DOMAIN hmm_indexes :
              e < f =>
                 /\ hmm_indexes[e][2] >= hmm_indexes[f][2]
                 /\ hmm_indexes[e][2] = hmm_indexes[f][2] =>
                       ProcessedAt(hmm_indexes[e]) < ProcessedAt(hmm_indexes[f])

(* The list holds two subsets whose files differ in line count and yet     *)
(* have the same, non-zero subsetSequenceCount.                            *)
C10_Witness ==
    /\ pc = "cataloged"
    /\ \E e, f \in DOMAIN hmm_indexes :
          /\ e < f
          /\ hmm_indexes[e][2] = hmm_indexes[f][2]
          /\ DescAt(hmm_indexes[e][1]).sub_lines
                # DescAt(hmm_indexes[f][1]).sub_lines
          /\ hmm_indexes[e][2] >= 1

----------------------------------------------------------------------------
(* Properties of getHMMSearchResults (SpecRank).                           *)

HasQuery(content, q) == \E j \in DOMAIN content : content[j][1] = q

BitScoreOf(content, q) ==
    content[CHOOSE j \in DOMAIN content : content[j][1] = q][2][2]

(* The discoveries of query q: <<i, p>> when result file p lies under the  *)
(* directory of the i-th cataloged model and holds q.                      *)
Discoveries(q) ==
    {o \in (DOMAIN index_to_hmms) \X (DOMAIN result_files) :
        /\ result_files[o[2]].dir = index_to_hmms[o[1]][2][1]
        /\ HasQuery(result_files[o[2]].content, q)}

(* Model iteration order first, result-file order second.                  *)
DiscoveredBefore(o1, o2) ==
    o1[1] < o2[1] \/ (o1[1] = o2[1] /\ o1[2] < o2[2])

(* The position of discovery o among the discoveries `found`.             *)
DiscoveryRank(found, o) ==
    Cardinality({o1 \in found : DiscoveredBefore(o1, o)}) + 1

DiscoveredMatch(q, o) ==
    <<index_to_hmms[o[1]][2][2], index_to_hmms[o[1]][2][3],
      BitScoreOf(result_files[o[2]].content, q)>>

WithBitScore(l, b) == SelectSeq(l, LAMBDA x : x[3] = b)

(* C3: every query's match list is ordered by bitScore non-increasing, and *)
(* matches of equal bitScore are in the order in which they were appended  *)
(* during collection: model iteration order, then result-file order.       *)
C3_RankedStable ==
    pc = "ranked" =>
        /\ DictKeys(scores) = {q \in Queries : Discoveries(q) # {}}
        /\ DictKeys(collected) = DictKeys(scores)
        /\ \A q \in DictKeys(scores) :
              LET ranked == DictGet(scores, q)
                  appended == DictGet(collected, q)
                  found == Discoveries(q)
              IN  /\ Len(appended) = Cardinality(found)
                  /\ \A o \in found :
                        appended[DiscoveryRank(found, o)] =
                            DiscoveredMatch(q, o)
                  /\ Len(ranked) = Len(appended)
                  /\ \A i \in 1..(Len(ranked) - 1) :
                        ranked[i][3] >= ranked[i + 1][3]
                  /\ \A b \in BitScores :
                        WithBitScore(ranked, b) = WithBitScore(appended, b)

(* A query has three matches; sorting moved them, and its top bitScore is  *)
(* tied between two models of different partitions.                        *)
C3_Witness ==
    /\ pc = "ranked"
    /\ \E q \in DictKeys(scores) :
          LET ranked == DictGet(scores, q)
          IN  /\ Len(ranked) = 3
              /\ ranked # DictGet(collected, q)
              /\ ranked[1][3] = ranked[2][3]
              /\ ranked[1][1] # ranked[2][1]

(* The number of match entries of query q for the i-th cataloged model.    *)
EntriesFor(q, i) ==
    IF ~DictHas(scores, q) THEN 0
    ELSE Cardinality({m \in DOMAIN DictGet(scores, q) :
            /\ DictGet(scores, q)[m][1] = index_to_hmms[i][2][2]
            /\ DictGet(scores, q)[m][2] = index_to_hmms[i][2][3]})

(* C4: the result holds exactly one match entry for every (query, model)   *)
(* pair that appears in a result file of the model, also when the query    *)
(* appears in several shards of the model, and none for any other pair.    *)
C4_OneMatchPerPair ==
    pc = "ranked" =>
        \A i \in DOMAIN index_to_hmms, q \in Queries :
            EntriesFor(q, i) =
                IF \E o \in Discoveries(q) : o[1] = i THEN 1 ELSE 0

----------------------------------------------------------------------------
(* Properties of the pipeline run twice (Spec).                            *)

(* The alignmentIndex buckets that hold query q.                           *)
BucketsOf(qa, q) == {qa[pl[1]][1] : pl \in Places(qa, q)}

SameAssignment(qa1, qa2) ==
    \A q \in Queries : BucketsOf(qa1, q) = BucketsOf(qa2, q)

IsTop(l, m) == \A n \in DOMAIN l : l[n][3] <= l[m][3]

(* Some query has its highest bitScore against models of two partitions.   *)
TopTieAcrossPartitions ==
    \E i \in DOMAIN scores :
        \E m, n \in DOMAIN scores[i][2] :
            /\ IsTop(scores[i][2], m)
            /\ IsTop(scores[i][2], n)
            /\ scores[i][2][m][1] # scores[i][2][n][1]

(* C8: two runs of the pipeline on the same artifacts yield the same       *)
(* query-to-alignmentIndex assignment, whatever the order in which the     *)
(* descriptor files and the result files are enumerated.                   *)
C8_SameAssignmentAnyOrder ==
    (run = 2 /\ pc = "assigned") =>
        SameAssignment(query_assignment, first_assignment)

(* C8, amended: the two runs yield the same assignment provided no query   *)
(* has equal top bit-scores against models of different partitions.        *)
C8_SameAssignmentWithoutTopTie ==
    (run = 2 /\ pc = "assigned" /\ ~TopTieAcrossPartitions) =>
        SameAssignment(query_assignment, first_assignment)

(* The second run enumerated the descriptors in another order than the     *)
(* first and assigned a query that has matches of different bit-scores in  *)
(* two partitions.                                                         *)
C8_Witness ==
    /\ run = 2
    /\ pc = "assigned"
    /\ ~TopTieAcrossPartitions
    /\ descriptors[1].dir # 1
    /\ first_assignment # <<>>
    /\ \E i \in DOMAIN scores :
          /\ Len(scores[i][2]) >= 2
          /\ scores[i][2][1][1] # scores[i][2][2][1]

====
